---- MODULE Spec2Model ----
(***************************************************************************)
(* MindTrack stress detection: the message classifier (analyze_query and   *)
(* the compound-score labelling), the SQLite log store shared by the five  *)
(* Streamlit scripts (tables stress_logs and stress_entries) and the       *)
(* handlers that feed it.                                                  *)
(*                                                                         *)
(* Texts are sequences of one-character strings.  Sentiment scores are     *)
(* integers in hundredths: the polarity 0.05 is 5, -0.2 is -20.  The       *)
(* lexicon scorers (TextBlob, VADER) are libraries outside the repository: *)
(* their score is an input chosen from the range [-1, 1].                  *)
(***************************************************************************)
EXTENDS Integers, Sequences, FiniteSets, TLC

VARIABLES
  text,            \* classifier run: the text handed to the classifier
  result,          \* classifier run: what the classifier returned, or NoResult
  stress_logs,     \* rows of table stress_logs in stress_data.db
  logs_seq,        \* sqlite_sequence entry of stress_logs: the largest id given out
  logs_journal,    \* history: the rows of stress_logs in the order they were inserted
  stress_entries,  \* rows of table stress_entries in stress_data.db
  entries_seq,     \* sqlite_sequence entry of stress_entries
  entries_journal, \* history: the rows of stress_entries in insertion order
  utc,             \* the system clock, in half hours of UTC since the first run
  tz,              \* offset of local time from UTC, in half hours
  page,            \* what the last run of a stress_logs script displayed
  uploaded,        \* the file in the CSV uploader, and the runs that processed it
  entries_page     \* what the last run of stressdetection.py displayed

----------------------------------------------------------------------------
(* Characters and Python string operations                                 *)

UpperCase == <<"A","B","C","D","E","F","G","H","I","J","K","L","M","N","O","P","Q","R","S","T","U","V","W","X","Y","Z">>

LowerCase == <<"a","b","c","d","e","f","g","h","i","j","k","l","m","n","o","p","q","r","s","t","u","v","w","x","y","z">>


\* str.lower() on one character
LowerOfUpper ==
  [u \in {UpperCase[i] : i \in 1..Len(UpperCase)} |->
     LowerCase[CHOOSE i \in 1..Len(UpperCase) : UpperCase[i] = u]]

LowerChar(ch) == IF ch \in DOMAIN LowerOfUpper THEN LowerOfUpper[ch] ELSE ch

\* str.lower()
Lower(s) == [i \in 1..Len(s) |-> LowerChar(s[i])]

\* Python's `word in s` on strings: word occurs in s as a contiguous substring
Contains(word, s) ==
  \E i \in 1..(Len(s) - Len(word) + 1) : SubSeq(s, i, i + Len(word) - 1) = word

Whitespace == {" ", "\t", "\n", "\r"}

\* bool(s.strip()) is False: s is empty or holds whitespace only
IsBlank(s) == \A i \in 1..Len(s) : s[i] \in Whitespace

\* str.strip(): leading and trailing whitespace removed
Strip(s) ==
  IF IsBlank(s) THEN <<>>
  ELSE LET first == CHOOSE i \in 1..Len(s) :
                      s[i] \notin Whitespace /\ \A j \in 1..(i-1) : s[j] \in Whitespace
           last  == CHOOSE i \in 1..Len(s) :
                      s[i] \notin Whitespace /\ \A j \in (i+1)..Len(s) : s[j] \in Whitespace
       IN  SubSeq(s, first, last)

----------------------------------------------------------------------------
(* Keyword table and classifier                                            *)

\* mutant of CAUSE_KEYWORDS: the Social entry comes before the Academic entry
CAUSE_KEYWORDS_SocialFirst ==
  <<[key |-> "Social", keywords |->
       <<<<"f","r","i","e","n","d">>,
         <<"a","l","o","n","e">>,
         <<"l","o","n","e","l","y">>,
         <<"r","e","l","a","t","i","o","n","s","h","i","p">>,
         <<"g","r","o","u","p">>,
         <<"c","l","a","s","s","m","a","t","e","s">>>>],
    [key |-> "Academic", keywords |->
       <<<<"e","x","a","m">>,
         <<"a","s","s","i","g","n","m","e","n","t">>,
         <<"p","r","o","j","e","c","t">>,
         <<"d","e","a","d","l","i","n","e">>,
         <<"g","r","a","d","e","s">>,
         <<"h","o","m","e","w","o","r","k">>,
         <<"s","t","u","d","y">>>>],
    [key |-> "Burnout", keywords |->
       <<<<"t","i","r","e","d">>,
         <<"e","x","h","a","u","s","t","e","d">>,
         <<"o","v","e","r","w","h","e","l","m","e","d">>,
         <<"s","l","e","e","p">>,
         <<"b","u","r","n","e","d"," ","o","u","t">>,
         <<"s","t","r","e","s","s">>>>],
    [key |-> "Career", keywords |->
       <<<<"r","e","s","u","m","e">>,
         <<"i","n","t","e","r","n","s","h","i","p">>,
         <<"p","l","a","c","e","m","e","n","t">>,
         <<"j","o","b">>,
         <<"i","n","t","e","r","v","i","e","w">>>>]>>

\* the dict literal, in insertion order (the order dict.items() iterates in)
CAUSE_KEYWORDS ==
  <<[key |-> "Academic", keywords |->
       <<<<"e","x","a","m">>,
         <<"a","s","s","i","g","n","m","e","n","t">>,
         <<"p","r","o","j","e","c","t">>,
         <<"d","e","a","d","l","i","n","e">>,
         <<"g","r","a","d","e","s">>,
         <<"h","o","m","e","w","o","r","k">>,
         <<"s","t","u","d","y">>>>],
    [key |-> "Social", keywords |->
       <<<<"f","r","i","e","n","d">>,
         <<"a","l","o","n","e">>,
         <<"l","o","n","e","l","y">>,
         <<"r","e","l","a","t","i","o","n","s","h","i","p">>,
         <<"g","r","o","u","p">>,
         <<"c","l","a","s","s","m","a","t","e","s">>>>],
    [key |-> "Burnout", keywords |->
       <<<<"t","i","r","e","d">>,
         <<"e","x","h","a","u","s","t","e","d">>,
         <<"o","v","e","r","w","h","e","l","m","e","d">>,
         <<"s","l","e","e","p">>,
         <<"b","u","r","n","e","d"," ","o","u","t">>,
         <<"s","t","r","e","s","s">>>>],
    [key |-> "Career", keywords |->
       <<<<"r","e","s","u","m","e">>,
         <<"i","n","t","e","r","n","s","h","i","p">>,
         <<"p","l","a","c","e","m","e","n","t">>,
         <<"j","o","b">>,
         <<"i","n","t","e","r","v","i","e","w">>>>]>>

\* mutant of AnyKeyword: the comparison is case-sensitive
AnyKeyword_CaseSensitive(keywords, s) ==
  \E k \in 1..Len(keywords) : Contains(keywords[k], s)

\* any(word.lower() in text.lower() for word in keywords)
AnyKeyword(keywords, s) ==
  LET low == Lower(s)
  IN  \E k \in 1..Len(keywords) : Contains(Lower(keywords[k]), low)

\* mutant of CauseFrom: the loop has no break, so the last matching key wins
RECURSIVE CauseFrom_NoBreak(_, _)
CauseFrom_NoBreak(i, s) ==
  IF i > Len(CAUSE_KEYWORDS) THEN "General"
  ELSE LET rest == CauseFrom_NoBreak(i + 1, s)
       IN  IF rest # "General" THEN rest
           ELSE IF \E k \in 1..Len(CAUSE_KEYWORDS[i].keywords) :
                     Contains(Lower(CAUSE_KEYWORDS[i].keywords[k]), Lower(s))
                  THEN CAUSE_KEYWORDS[i].key
                  ELSE "General"

\* the for loop over CAUSE_KEYWORDS.items() from entry i on: the first key
\* whose keywords match, with break; "General" when the loop runs out
RECURSIVE CauseFrom(_, _)
CauseFrom(i, s) ==
  IF i > Len(CAUSE_KEYWORDS) THEN "General"
  ELSE IF AnyKeyword(CAUSE_KEYWORDS[i].keywords, s) THEN CAUSE_KEYWORDS[i].key
  ELSE CauseFrom(i + 1, s)

\* polarity thresholds of analyze_query, in hundredths
HighBelow == -20
MediumBelow == 0

\* mutant of StressLevel: the first comparison is <= instead of <
StressLevel_Inclusive(polarity) ==
  IF polarity <= HighBelow THEN "High"
  ELSE IF polarity < MediumBelow THEN "Medium"
  ELSE "Low"

\* mutant of StressLevel: the labels of the sentiment scheme are used
StressLevel_SentimentWords(polarity) ==
  IF polarity < HighBelow THEN "Negative"
  ELSE IF polarity < MediumBelow THEN "Neutral"
  ELSE "Positive"

StressLevel(polarity) ==
  IF polarity < HighBelow THEN "High"
  ELSE IF polarity < MediumBelow THEN "Medium"
  ELSE "Low"

\* analyze_query(text); polarity is TextBlob(text).sentiment.polarity
analyze_query(s, polarity) ==
  [text |-> s, stress_level |-> StressLevel(polarity),
   cause |-> CauseFrom(1, s), polarity |-> polarity]

\* compound thresholds of stressdetection.py, in hundredths
PositiveFrom == 5
NegativeUpTo == -5

\* Manual Entry: the if / elif / else chain
ManualSentiment(compound) ==
  IF compound >= PositiveFrom THEN "Positive"
  ELSE IF compound <= NegativeUpTo THEN "Negative"
  ELSE "Neutral"

\* mutant of CsvSentiment: the first comparison is > instead of >=
CsvSentiment_Strict(score) ==
  IF score > PositiveFrom THEN "Positive"
  ELSE (IF score <= NegativeUpTo THEN "Negative" ELSE "Neutral")

\* Upload CSV: the nested conditional expression
CsvSentiment(score) ==
  IF score >= PositiveFrom THEN "Positive"
  ELSE (IF score <= NegativeUpTo THEN "Negative" ELSE "Neutral")

\* Simulate Import: the fixed message list
simulated_messages ==
  <<<<"I"," ","a","m"," ","s","t","r","e","s","s","e","d"," ","a","b","o","u","t"," ","t","h","e"," ","u","p","c","o","m","i","n","g"," ","a","s","s","i","g","n","m","e","n","t"," ","d","e","a","d","l","i","n","e">>,
    <<"F","e","e","l","i","n","g"," ","l","o","n","e","l","y"," ","i","n"," ","c","l","a","s","s",","," ","n","o"," ","f","r","i","e","n","d","s"," ","t","o"," ","s","t","u","d","y"," ","w","i","t","h">>,
    <<"E","x","h","a","u","s","t","e","d"," ","a","f","t","e","r"," ","f","i","n","i","s","h","i","n","g"," ","t","h","e"," ","p","r","o","j","e","c","t">>,
    <<"W","o","r","r","i","e","d"," ","a","b","o","u","t"," ","t","h","e"," ","i","n","t","e","r","n","s","h","i","p"," ","i","n","t","e","r","v","i","e","w"," ","n","e","x","t"," ","w","e","e","k">>>>

----------------------------------------------------------------------------
(* The SQLite store                                                        *)

\* daylight saving: local time is UTC + tz, and tz is 0 or DstOffset (one
\* hour, in half hours)
DstOffset == 2

Max(S) == CHOOSE m \in S : \A x \in S : x <= m

\* mutant of SqliteNextId: the sequence entry itself is handed out again
SqliteNextId_Reuse(rows, seq) == IF seq = 0 THEN 1 ELSE seq

\* INTEGER PRIMARY KEY AUTOINCREMENT: one more than the largest id ever used
SqliteNextId(rows, seq) == Max({seq} \cup {r.id : r \in rows}) + 1

\* DEFAULT CURRENT_TIMESTAMP: the UTC time of the insert
CURRENT_TIMESTAMP == utc

\* datetime.now().strftime("%Y-%m-%d %H:%M:%S"): the naive local time
LocalNow == utc + tz

\* a table with its sequence entry and insertion history
Table(rows, seq, journal) == [rows |-> rows, seq |-> seq, journal |-> journal]

\* INSERT of one row and commit
Insert(t, row) ==
  Table(t.rows \cup {row}, row.id, Append(t.journal, row))

\* mutant of save_to_db: an upsert keyed by the text, which drops the rows
\* that already hold the same text
save_to_db_Upsert(t, s, stress_level, cause) ==
  LET kept == {r \in t.rows : r.text # s}
      row  == [id |-> SqliteNextId(t.rows, t.seq), text |-> s,
               stress_level |-> stress_level, cause |-> cause,
               timestamp |-> CURRENT_TIMESTAMP]
  IN  Table(kept \cup {row}, row.id, Append(t.journal, row))

\* hackathon.py save_to_db(text, stress_level, cause) on stress_logs
save_to_db(t, s, stress_level, cause) ==
  Insert(t, [id |-> SqliteNextId(t.rows, t.seq), text |-> s,
             stress_level |-> stress_level, cause |-> cause,
             timestamp |-> CURRENT_TIMESTAMP])

\* stressdetection.py save_to_db(message, sentiment, score) on stress_entries
save_entry(t, message, sentiment, score) ==
  Insert(t, [id |-> SqliteNextId(t.rows, t.seq), message |-> message,
             sentiment |-> sentiment, score |-> score,
             timestamp |-> LocalNow])

\* for r in results: save_to_db(r['text'], r['stress_level'], r['cause'])
RECURSIVE SaveResults(_, _)
SaveResults(t, results) ==
  IF results = <<>> THEN t
  ELSE SaveResults(save_to_db(t, Head(results).text, Head(results).stress_level,
                              Head(results).cause),
                   Tail(results))

\* SELECT * FROM <table>: the rows in rowid order
RECURSIVE RowsById(_)
RowsById(rows) ==
  IF rows = {} THEN <<>>
  ELSE LET r == CHOOSE x \in rows : \A y \in rows : x.id <= y.id
       IN  <<r>> \o RowsById(rows \ {r})

load_all_records == RowsById(stress_logs)

fetch_all_data == RowsById(stress_entries)

LogsTable == Table(stress_logs, logs_seq, logs_journal)

EntriesTable == Table(stress_entries, entries_seq, entries_journal)

StoreRows == Cardinality(stress_logs) + Cardinality(stress_entries)

\* the store holds at most MaxRows rows in the runs explored
MaxRows == 4

\* the dashboard is followed for MaxDays midnights
MaxDays == 2

\* the clock is followed for MaxClock half hours
MaxClock == 1

----------------------------------------------------------------------------
(* The dashboard of all records                                            *)

\* a mentor is alerted from this many High records on
AlertThreshold == 3

\* pd.Grouper(key='timestamp', freq='D'): a calendar day, in half hours
DayLen == 48

\* the calendar day a parsed timestamp falls in
DayOf(timestamp) == timestamp \div DayLen

\* mutant of value_counts: the count of High is reported whether or not a
\* High row exists
value_counts_WithHigh(df, column) ==
  LET labels == {df[i][column] : i \in 1..Len(df)} \cup {"High"}
  IN  [l \in labels |-> Cardinality({i \in 1..Len(df) : df[i][column] = l})]

\* df[column].value_counts(): the labels found in the column, each with the
\* number of rows that carry it
value_counts(df, column) ==
  LET labels == {df[i][column] : i \in 1..Len(df)}
  IN  [l \in labels |-> Cardinality({i \in 1..Len(df) : df[i][column] = l})]

\* mutant of daily_trend: the days are resampled, so that every calendar day
\* from the first row's to the last row's has a row, filled with zeros
daily_trend_Resampled(df) ==
  LET found  == {DayOf(df[i].timestamp) : i \in 1..Len(df)}
      days   == {d \in 0..Max(found \cup {0}) : \E e \in found : e <= d}
      levels == {df[i].stress_level : i \in 1..Len(df)}
  IN  [d \in days |->
        [l \in levels |->
          Cardinality({i \in 1..Len(df) :
                         DayOf(df[i].timestamp) = d /\ df[i].stress_level = l})]]

\* groupby([Grouper(freq='D'), 'stress_level']).count()['count']
\*   .unstack(fill_value=0): a row per day that has a group, a column per
\* level that has a group, and 0 where a day has no row of a level
daily_trend(df) ==
  LET days   == {DayOf(df[i].timestamp) : i \in 1..Len(df)}
      levels == {df[i].stress_level : i \in 1..Len(df)}
  IN  [d \in days |->
        [l \in levels |->
          Cardinality({i \in 1..Len(df) :
                         DayOf(df[i].timestamp) = d /\ df[i].stress_level = l})]]

\* high_count = value_counts().get('High', 0), and the message chosen by it
mentor_alert(df) ==
  LET counts     == value_counts(df, "stress_level")
      high_count == IF "High" \in DOMAIN counts THEN counts["High"] ELSE 0
  IN  IF high_count >= AlertThreshold
        THEN [signal |-> "MentorAlert", count |-> high_count]
        ELSE [signal |-> "NoAlert", count |-> 0]

\* the dashboard section when it draws nothing
NoDashboard ==
  [df_all |-> <<>>, level_counts |-> <<>>, cause_counts |-> <<>>,
   trend |-> <<>>, alert |-> [signal |-> "Nothing", count |-> 0]]

\* the dashboard section for the rows df_all that load_all_records returned:
\* everything is drawn inside "if not df_all.empty"
dashboard(df_all) ==
  IF df_all = <<>> THEN NoDashboard
  ELSE [df_all       |-> df_all,
        level_counts |-> value_counts(df_all, "stress_level"),
        cause_counts |-> value_counts(df_all, "cause"),
        trend        |-> daily_trend(df_all),
        alert        |-> mentor_alert(df_all)]

\* a displayed page: the notice of the input section ("none", "audio_error",
\* "storage_error"), the dashboard, and the history of the run's storage
\* failure: the call of save_to_db that raised ("none", "insert", "commit"),
\* the texts of the run's batch and the position of the record that failed
Page(notice, fault, batch, failed_at, shown) ==
  [notice |-> notice, fault |-> fault, batch |-> batch,
   failed_at |-> failed_at, dashboard |-> shown]

\* the uploader of a CSV section: no file
NoUpload == [column |-> <<>>, runs |-> 0]

----------------------------------------------------------------------------
(* Inputs of the handlers                                                  *)

\* what a user types into a text box
TypedTexts ==
  {<<" ">>, <<"t","i","r","e","d">>}

\* what the speech recogniser returns when it returns a transcript
VoiceTexts == {<<"l","o","n","e","l","y">>}

\* the text column of an uploaded CSV file as read_csv parses it: one entry
\* per data row, the field's characters, <<>> for an empty field
CsvColumns ==
  {<< <<" ", " ">> >>,
   << <<>>, <<"t","i","r","e","d">> >>}

\* what a user pastes into the text area
PastedTexts ==
  {<<" ","h","i"," ","\n","\n","e","x","a","m">>,
   <<" ","\n"," ">>}

\* TextBlob(text).sentiment.polarity and the VADER compound score are
\* functions of the text, computed from lexicons outside the repository.  The
\* handlers are explored with this sample lexicon: the score of a text is the
\* score of the first listed word it contains, and 0 when it contains none.
SampleLexicon ==
  <<[word |-> <<"t","i","r","e","d">>, polarity |-> -40, compound |-> -44],
    [word |-> <<"e","x","h","a","u","s","t","e","d">>, polarity |-> -40, compound |-> -36],
    [word |-> <<"l","o","n","e","l","y">>, polarity |-> -10, compound |-> -36],
    [word |-> <<"w","o","r","r","i","e","d">>, polarity |-> -20, compound |-> -30],
    [word |-> <<"h","i">>, polarity |-> 0, compound |-> 5]>>

RECURSIVE LexiconEntry(_, _)
LexiconEntry(i, s) ==
  IF i > Len(SampleLexicon) THEN [word |-> <<>>, polarity |-> 0, compound |-> 0]
  ELSE IF Contains(SampleLexicon[i].word, Lower(s)) THEN SampleLexicon[i]
  ELSE LexiconEntry(i + 1, s)

\* str.splitlines() at "\n"
RECURSIVE SplitLines(_)
SplitLines(s) ==
  IF s = <<>> THEN <<>>
  ELSE IF \E i \in 1..Len(s) : s[i] = "\n"
    THEN LET i == CHOOSE k \in 1..Len(s) : s[k] = "\n" /\ \A j \in 1..(k-1) : s[j] # "\n"
         IN  <<SubSeq(s, 1, i - 1)>> \o SplitLines(SubSeq(s, i + 1, Len(s)))
    ELSE <<s>>

\* [l.strip() for l in txt.splitlines() if l.strip()]
RECURSIVE StrippedLines(_)
StrippedLines(ls) ==
  IF ls = <<>> THEN <<>>
  ELSE IF IsBlank(Head(ls)) THEN StrippedLines(Tail(ls))
  ELSE <<Strip(Head(ls))>> \o StrippedLines(Tail(ls))

\* read_csv turns an empty field into NaN, and astype(str) turns NaN into "nan"
CsvCellText(cell) == IF cell = <<>> THEN <<"n","a","n">> ELSE cell

\* df_in[text_col].astype(str).tolist()
CsvTexts(column) == [i \in 1..Len(column) |-> CsvCellText(column[i])]

\* every text a handler can be given
HandlerTexts ==
  TypedTexts \cup VoiceTexts
    \cup UNION {{CsvTexts(column)[i] : i \in 1..Len(column)} : column \in CsvColumns}
    \cup UNION {LET lines == StrippedLines(SplitLines(txt))
                IN  {lines[i] : i \in 1..Len(lines)} : txt \in PastedTexts}
    \cup {simulated_messages[i] : i \in 1..Len(simulated_messages)}

\* the scores of the handlers' texts, looked up once
ScoreOf == [s \in HandlerTexts |-> LexiconEntry(1, s)]

\* TextBlob(text).sentiment.polarity
TextBlobPolarity(s) == ScoreOf[s].polarity

\* sia.polarity_scores(text)['compound']
VaderCompound(s) == ScoreOf[s].compound

\* the classification of the handlers' texts, computed once
AnalyzeOf == [s \in HandlerTexts |-> analyze_query(s, TextBlobPolarity(s))]

\* analyze_query(t) as the handlers call it
Analyze(s) == AnalyzeOf[s]

\* [analyze_query(t) for t in texts]
AnalyzeAll(texts) == [i \in 1..Len(texts) |-> Analyze(texts[i])]


----------------------------------------------------------------------------
(* Inputs of the classifier runs                                           *)

\* scores range over [-1, 1] in hundredths
MaxScore == 100
Scores == (0 - MaxScore)..MaxScore

\* pieces a text is put together from: keywords of every category in mixed
\* case, a keyword inside a longer word ("friends"), the two halves of
\* "burned out", and a word that is no keyword
Fragments ==
  {<<"e","x","a","m">>,
   <<"L","O","N","E","L","Y">>,
   <<"f","r","i","e","n","d","s">>,
   <<"b","u","r","n","e","d">>,
   <<" ","o","u","t">>,
   <<"J","o","b">>,
   <<"h","i">>}

MaxFrags == 2

RECURSIVE TextsOf(_)
TextsOf(n) ==
  IF n = 0 THEN {<<>>}
  ELSE LET shorter == TextsOf(n - 1)
       IN  shorter \cup {t \o f : t \in shorter, f \in Fragments}

\* the texts classified: every text of at most MaxFrags pieces, and the
\* simulated messages
Texts == TextsOf(MaxFrags) \cup {simulated_messages[i] : i \in 1..Len(simulated_messages)}

NoResult == [fn |-> "none"]

vars == <<text, result, stress_logs, logs_seq, logs_journal,
          stress_entries, entries_seq, entries_journal, utc, tz,
          page, uploaded, entries_page>>

store == <<stress_logs, logs_seq, logs_journal,
           stress_entries, entries_seq, entries_journal, utc, tz>>

ui == <<page, uploaded, entries_page>>

----------------------------------------------------------------------------
(* Classifier runs: one text, classified once                              *)

\* the database file as the first run finds it: CREATE TABLE IF NOT EXISTS
\* has made both tables, and nothing has been inserted
InitStore ==
  /\ stress_logs = {}
  /\ logs_seq = 0
  /\ logs_journal = <<>>
  /\ stress_entries = {}
  /\ entries_seq = 0
  /\ entries_journal = <<>>
  /\ utc = 0
  /\ page = Page("none", "none", <<>>, 0, NoDashboard)
  /\ uploaded = NoUpload
  /\ entries_page = Page("none", "none", <<>>, 0, NoDashboard)

InitClassify ==
  /\ text \in Texts
  /\ result = NoResult
  /\ InitStore
  /\ tz = 0

\* a caller runs analyze_query on the text
AnalyzeQuery ==
  /\ result = NoResult
  /\ \E polarity \in Scores :
       result' = [fn |-> "analyze_query", out |-> analyze_query(text, polarity)]
  /\ UNCHANGED <<text, store, ui>>

\* stressdetection.py, Manual Entry: label of the compound score
LabelManual ==
  /\ result = NoResult
  /\ \E compound \in Scores :
       result' = [fn |-> "manual", score |-> compound,
                  sentiment |-> ManualSentiment(compound)]
  /\ UNCHANGED <<text, store, ui>>

\* stressdetection.py, Upload CSV: label of the compound score
LabelCsv ==
  /\ result = NoResult
  /\ \E score \in Scores :
       result' = [fn |-> "csv", score |-> score, sentiment |-> CsvSentiment(score)]
  /\ UNCHANGED <<text, store, ui>>

NextClassify == AnalyzeQuery \/ LabelManual \/ LabelCsv

SpecClassify == InitClassify /\ [][NextClassify]_vars

----------------------------------------------------------------------------
(* The handlers: one script run each                                       *)

\* the first run starts in winter time or in summer time
InitStoreRun ==
  /\ text = <<>>
  /\ result = NoResult
  /\ InitStore
  /\ tz \in {0, DstOffset}

\* the run writes table t back as stress_logs
WriteLogs(t) ==
  /\ stress_logs' = t.rows
  /\ logs_seq' = t.seq
  /\ logs_journal' = t.journal
  /\ UNCHANGED <<text, result, stress_entries, entries_seq, entries_journal, utc, tz>>

\* the run writes table t back as stress_entries
WriteEntries(t) ==
  /\ stress_entries' = t.rows
  /\ entries_seq' = t.seq
  /\ entries_journal' = t.journal
  /\ UNCHANGED <<text, result, stress_logs, logs_seq, logs_journal, utc, tz,
                 page, uploaded>>

\* a run in which every save_to_db returned: the input section shows the
\* notice, and the dashboard section below it reads the table the run left
Shows(notice, rows) ==
  /\ page' = Page(notice, "none", <<>>, 0, dashboard(RowsById(rows)))
  /\ UNCHANGED entries_page

\* a run of stressdetection.py in which every save_to_db returned
EntriesShown == entries_page' = Page("none", "none", <<>>, 0, NoDashboard)

\* hackathon.py "Text Input": Analyze Message pressed
TextInput ==
  \E user_msg \in TypedTexts :
    /\ StoreRows + 1 <= MaxRows
    /\ uploaded' = NoUpload
    /\ IF ~IsBlank(user_msg)
         THEN LET r == Analyze(user_msg)
                  t == save_to_db(LogsTable, r.text, r.stress_level, r.cause)
              IN  WriteLogs(t) /\ Shows("none", t.rows)
         ELSE UNCHANGED <<text, result, store>> /\ Shows("none", stress_logs)

\* hackathon.py "Voice Input": the recogniser raises, or returns a transcript
\* that is analysed and saved
VoiceInput ==
  /\ StoreRows + 1 <= MaxRows
  /\ uploaded' = NoUpload
  /\ \/ UNCHANGED <<text, result, store>> /\ Shows("audio_error", stress_logs)
     \/ \E heard \in VoiceTexts :
          LET r == Analyze(heard)
              t == save_to_db(LogsTable, r.text, r.stress_level, r.cause)
          IN  WriteLogs(t) /\ Shows("none", t.rows)

\* "if uploaded:" and what follows: the rows of the file are analysed and saved
ProcessUpload(column) ==
  LET t == SaveResults(LogsTable, AnalyzeAll(CsvTexts(column)))
  IN  /\ StoreRows + Len(column) <= MaxRows
      /\ WriteLogs(t)
      /\ Shows("none", t.rows)

\* hackathon.py "CSV Upload": the run started by putting a file into the
\* uploader
CsvUpload ==
  \E column \in CsvColumns :
    /\ ProcessUpload(column)
    /\ uploaded' = [column |-> column, runs |-> 1]

\* hackathon.py "CSV Upload": a later run with the file still in the uploader,
\* started by Download Results CSV or by the column selectbox
CsvRerun ==
  /\ uploaded # NoUpload
  /\ ProcessUpload(uploaded.column)
  /\ uploaded' = [uploaded EXCEPT !.runs = @ + 1]

\* hackathon.py "Simulated Google Classroom": Simulate Import pressed
SimulateImport ==
  LET t == SaveResults(LogsTable, AnalyzeAll(simulated_messages))
  IN  /\ StoreRows + Len(simulated_messages) <= MaxRows
      /\ uploaded' = NoUpload
      /\ WriteLogs(t)
      /\ Shows("none", t.rows)

\* stress_detection.py "Analyze Pasted Messages", its uploader empty
AnalyzePasted ==
  \E txt \in PastedTexts :
    LET lines == StrippedLines(SplitLines(txt))
        t     == SaveResults(LogsTable, AnalyzeAll(lines))
    IN  /\ StoreRows + Len(lines) <= MaxRows
        /\ uploaded' = NoUpload
        /\ WriteLogs(t)
        /\ Shows("none", t.rows)

\* stress_detection.py "Simulate Import from Google Classroom", its uploader
\* empty: the button is read below the dashboard section, which has drawn the
\* table as it was before the import
SimulateImportFromClassroom ==
  LET t == SaveResults(LogsTable, AnalyzeAll(simulated_messages))
  IN  /\ StoreRows + Len(simulated_messages) <= MaxRows
      /\ uploaded' = NoUpload
      /\ WriteLogs(t)
      /\ Shows("none", stress_logs)

\* the quiz score of hackfinal.py "MindCheck": four answers weighted 0..3
MindCheckLevel(total_score) ==
  IF total_score <= 3 THEN "Low"
  ELSE IF total_score <= 6 THEN "Medium"
  ELSE "High"

\* hackfinal.py "MindCheck": Get MindCheck Result pressed; whatever the four
\* answers (weights 0..3) add up to, the level and a randomly drawn cause are
\* displayed and nothing is saved
MindCheck ==
  /\ \A total_score \in 0..12 : MindCheckLevel(total_score) \in {"Low", "Medium", "High"}
  /\ UNCHANGED vars

\* a run of hackathon.py in which no button is pressed and no file is in the
\* uploader: the dashboard reads the table (load_all_records) and draws it;
\* the parsed timestamps and the count column are written to the DataFrame
\* only
Dashboard ==
  /\ uploaded' = NoUpload
  /\ Shows("none", stress_logs)
  /\ UNCHANGED <<text, result, store>>

\* stressdetection.py "Manual Entry": Analyze pressed
ManualEntry ==
  \E user_message \in TypedTexts :
    /\ StoreRows + 1 <= MaxRows
    /\ IF ~IsBlank(user_message)
         THEN LET compound == VaderCompound(user_message)
              IN  /\ WriteEntries(save_entry(EntriesTable, user_message,
                                             ManualSentiment(compound), compound))
                  /\ EntriesShown
         ELSE UNCHANGED <<text, result, store, page, uploaded>> /\ EntriesShown

\* for text in texts: score, sentiment, save_to_db(text, sentiment, score)
RECURSIVE SaveEntries(_, _)
SaveEntries(t, texts) ==
  IF texts = <<>> THEN t
  ELSE LET score == VaderCompound(Head(texts))
       IN  SaveEntries(save_entry(t, Head(texts), CsvSentiment(score), score),
                       Tail(texts))

\* stressdetection.py "Upload CSV": a run with a file in the uploader
UploadCSV ==
  \E column \in CsvColumns :
    /\ StoreRows + Len(column) <= MaxRows
    /\ WriteEntries(SaveEntries(EntriesTable, CsvTexts(column)))
    /\ EntriesShown

\* half an hour passes
Tick ==
  /\ utc < MaxClock
  /\ utc' = utc + 1
  /\ UNCHANGED <<text, result, stress_logs, logs_seq, logs_journal,
                 stress_entries, entries_seq, entries_journal, tz, ui>>

\* half an hour passes, and in it daylight saving time begins or ends: local
\* clocks are set forward or back by DstOffset
DstChange ==
  /\ utc < MaxClock
  /\ utc' = utc + 1
  /\ tz' = IF tz = 0 THEN DstOffset ELSE 0
  /\ UNCHANGED <<text, result, stress_logs, logs_seq, logs_journal,
                 stress_entries, entries_seq, entries_journal, ui>>

Next ==
  \/ TextInput
  \/ VoiceInput
  \/ CsvUpload
  \/ CsvRerun
  \/ SimulateImport
  \/ AnalyzePasted
  \/ SimulateImportFromClassroom
  \/ MindCheck
  \/ Dashboard
  \/ ManualEntry
  \/ UploadCSV
  \/ Tick
  \/ DstChange

Spec == InitStoreRun /\ [][Next]_vars

\* midnight (UTC) comes
Midnight ==
  /\ DayOf(utc) < MaxDays
  /\ utc' = (DayOf(utc) + 1) * DayLen
  /\ UNCHANGED <<text, result, stress_logs, logs_seq, logs_journal,
                 stress_entries, entries_seq, entries_journal, tz, ui>>

\* the stress_logs scripts and their dashboard over several days
NextDashboard ==
  \/ TextInput
  \/ VoiceInput
  \/ AnalyzePasted
  \/ Dashboard
  \/ Midnight

SpecDashboard == InitStoreRun /\ [][NextDashboard]_vars


----------------------------------------------------------------------------
(* Runs in which a call of save_to_db raises                               *)

\* where save_to_db can raise: at the INSERT, which then writes nothing, or
\* at the commit (SQLITE_BUSY), which leaves the inserted row in the open
\* transaction of the connection
Faults == {"insert", "commit"}

\* mutant of CommittedBefore: the batch is one transaction, and a failure
\* rolls all of it back
CommittedBefore_OneTransaction(t, results, k) == t

\* the loop over results whose k-th save_to_db raises: the calls before it
\* have each inserted and committed
CommittedBefore(t, results, k) == SaveResults(t, SubSeq(results, 1, k - 1))

\* [r['text'] for r in results]
TextsOfResults(results) == [i \in 1..Len(results) |-> results[i].text]

\* a run of a stress_logs script whose k-th save_to_db raises with the given
\* fault.  The table keeps what was committed before; the transaction left
\* open by a failed commit is rolled back when the run's connection is
\* dropped.  When the handler catches the exception the run goes on to the
\* dashboard, whose load_all_records reads through the same connection and so
\* sees the row of the open transaction; when it does not, the run ends at
\* the exception, which Streamlit displays, and no dashboard is drawn.
FailedRun(results, k, fault, caught, notice) ==
  LET t1   == CommittedBefore(LogsTable, results, k)
      r    == results[k]
      t2   == save_to_db(t1, r.text, r.stress_level, r.cause)
      seen == IF fault = "commit" THEN t2.rows ELSE t1.rows
  IN  /\ StoreRows + k <= MaxRows
      /\ WriteLogs(t1)
      /\ page' = Page(notice, fault, TextsOfResults(results), k,
                      IF caught THEN dashboard(RowsById(seen)) ELSE NoDashboard)
      /\ UNCHANGED entries_page

\* hackathon.py "Text Input": save_to_db raises, nothing catches it
TextInputFails ==
  \E user_msg \in TypedTexts, fault \in Faults :
    /\ ~IsBlank(user_msg)
    /\ uploaded' = NoUpload
    /\ FailedRun(<<Analyze(user_msg)>>, 1, fault, FALSE, "storage_error")

\* hackathon.py "Voice Input": save_to_db raises inside the try block, and
\* the bare except reports "Could not process audio. Try again."
VoiceInputFails ==
  \E heard \in VoiceTexts, fault \in Faults :
    /\ uploaded' = NoUpload
    /\ FailedRun(<<Analyze(heard)>>, 1, fault, TRUE, "audio_error")

\* hackathon.py "CSV Upload": the k-th save_to_db raises inside the try
\* block, and the handler reports "Could not process the CSV. Error: " with
\* the text of the sqlite3 exception
CsvUploadFails ==
  \E column \in CsvColumns, fault \in Faults :
    \E k \in 1..Len(column) :
      /\ uploaded' = [column |-> column, runs |-> 1]
      /\ FailedRun(AnalyzeAll(CsvTexts(column)), k, fault, TRUE, "storage_error")

\* hackathon.py "Simulated Google Classroom": the k-th save_to_db raises,
\* nothing catches it
SimulateImportFails ==
  \E k \in 1..Len(simulated_messages), fault \in Faults :
    /\ uploaded' = NoUpload
    /\ FailedRun(AnalyzeAll(simulated_messages), k, fault, FALSE, "storage_error")

\* stress_detection.py "Analyze Pasted Messages": the k-th save_to_db raises,
\* nothing catches it
AnalyzePastedFails ==
  \E txt \in PastedTexts, fault \in Faults :
    LET lines == StrippedLines(SplitLines(txt))
    IN  \E k \in 1..Len(lines) :
          /\ uploaded' = NoUpload
          /\ FailedRun(AnalyzeAll(lines), k, fault, FALSE, "storage_error")

\* stressdetection.py "Upload CSV": the k-th save_to_db raises, nothing
\* catches it.  Every call has its own connection, so the rows before the
\* k-th are committed and the k-th is dropped with its connection.
UploadCSVFails ==
  \E column \in CsvColumns, fault \in Faults :
    \E k \in 1..Len(column) :
      LET texts == CsvTexts(column)
      IN  /\ StoreRows + k <= MaxRows
          /\ WriteEntries(SaveEntries(EntriesTable, SubSeq(texts, 1, k - 1)))
          /\ entries_page' = Page("storage_error", fault, texts, k, NoDashboard)

\* stressdetection.py "Manual Entry": save_to_db raises, nothing catches it
ManualEntryFails ==
  \E user_message \in TypedTexts, fault \in Faults :
    /\ ~IsBlank(user_message)
    /\ StoreRows + 1 <= MaxRows
    /\ WriteEntries(EntriesTable)
    /\ entries_page' = Page("storage_error", fault, <<user_message>>, 1, NoDashboard)

\* the scripts with a store that can fail
NextFail ==
  \/ CsvUpload
  \/ Dashboard
  \/ TextInputFails
  \/ VoiceInputFails
  \/ CsvUploadFails
  \/ SimulateImportFails
  \/ AnalyzePastedFails
  \/ UploadCSVFails
  \/ ManualEntryFails

\* the first run, in winter time
InitFail ==
  /\ text = <<>>
  /\ result = NoResult
  /\ InitStore
  /\ tz = 0

SpecFail == InitFail /\ [][NextFail]_vars

----------------------------------------------------------------------------
(* Properties of the classifier                                            *)

CategoryOrder == <<"Academic", "Social", "Burnout", "Career">>

\* the keyword list the table gives a category, looked up by its key
KeywordsOfCategory(cat) ==
  (CHOOSE e \in {CAUSE_KEYWORDS[i] : i \in 1..Len(CAUSE_KEYWORDS)} : e.key = cat).keywords

\* the text contains a keyword of the category, case-insensitively
MentionsCategory(cat, s) ==
  LET kws == KeywordsOfCategory(cat)
      low == Lower(s)
  IN  \E k \in 1..Len(kws) : Contains(kws[k], low)

\* positions in CategoryOrder of the categories the text mentions
Mentioned(s) == {i \in 1..Len(CategoryOrder) : MentionsCategory(CategoryOrder[i], s)}

Analyzed == result.fn = "analyze_query"

\* C1: a text with keywords of two or more categories gets the category that
\* comes first in the order Academic, Social, Burnout, Career, wherever the
\* keywords stand in the text.
C1_FirstMatchInTableOrder ==
  Analyzed =>
    LET m == Mentioned(result.out.text)
    IN  Cardinality(m) >= 2 =>
          result.out.cause = CategoryOrder[CHOOSE i \in m : \A j \in m : i <= j]

\* C1 witness: "LONELYexam" names Social first and Academic second in the
\* text, and is classified Academic.
C1_Witness ==
  /\ Analyzed
  /\ result.out.text = <<"L","O","N","E","L","Y","e","x","a","m">>
  /\ Mentioned(result.out.text) = {1, 2}
  /\ result.out.cause = "Academic"

\* C2: the cause is General exactly when the text contains no keyword of any
\* category; otherwise it is one of the four categories.
C2_GeneralIffNoKeyword ==
  Analyzed =>
    /\ (result.out.cause = "General") <=> (Mentioned(result.out.text) = {})
    /\ result.out.cause # "General" =>
         result.out.cause \in {"Academic", "Social", "Burnout", "Career"}

\* C2 witness: a non-empty text without keywords classified General.
C2_Witness ==
  /\ Analyzed
  /\ result.out.text = <<"h","i","h","i">>
  /\ result.out.cause = "General"

LonelyMessage == simulated_messages[2]

\* C3 as stated: the message "Feeling lonely in class, no friends to study
\* with" is classified Social.
C3_LonelyIsSocial ==
  (Analyzed /\ result.out.text = LonelyMessage) => result.out.cause = "Social"

\* C3 amended: the message mentions both Social ("lonely", "friend") and
\* Academic ("study") and is classified Academic, the earlier table entry.
C3_LonelyIsAcademic ==
  (Analyzed /\ result.out.text = LonelyMessage) =>
    /\ Contains(<<"l","o","n","e","l","y">>, Lower(LonelyMessage))
    /\ Contains(<<"s","t","u","d","y">>, Lower(LonelyMessage))
    /\ Mentioned(LonelyMessage) = {1, 2}
    /\ result.out.cause = "Academic"

\* C3 witness: the message has been classified.
C3_Witness ==
  /\ Analyzed
  /\ result.out.text = LonelyMessage
  /\ result.out.cause = "Academic"

\* C4: the stress level is High below -0.2, Medium from -0.2 up to but not
\* including 0, and Low from 0 on; exactly one of the three applies.
C4_LevelThresholds ==
  Analyzed =>
    LET p == result.out.polarity
        l == result.out.stress_level
    IN  /\ l \in {"High", "Medium", "Low"}
        /\ (l = "High") <=> (p < -20)
        /\ (l = "Medium") <=> (-20 <= p /\ p < 0)
        /\ (l = "Low") <=> (p >= 0)

\* C4 witness: a polarity of exactly -0.2 classified Medium.
C4_Witness ==
  /\ Analyzed
  /\ result.out.polarity = -20
  /\ result.out.stress_level = "Medium"

\* C5: the label is Positive from 0.05 on, Negative up to -0.05 and Neutral
\* strictly between, and the manual and the CSV path give the same label to
\* the same score.
C5_SentimentThresholds ==
  result.fn \in {"manual", "csv"} =>
    /\ result.sentiment =
         (IF result.score >= 5 THEN "Positive"
          ELSE IF result.score <= -5 THEN "Negative" ELSE "Neutral")
    /\ ManualSentiment(result.score) = CsvSentiment(result.score)

\* C5 witness: the CSV path labels a score of exactly 0.05 Positive.
C5_Witness ==
  /\ result.fn = "csv"
  /\ result.score = 5
  /\ result.sentiment = "Positive"

----------------------------------------------------------------------------
(* Properties of the store                                                 *)

StrictlyIncreasingIds(journal) ==
  \A i, j \in 1..Len(journal) : i < j => journal[i].id < journal[j].id

UniqueIds(rows) == \A r1, r2 \in rows : r1.id = r2.id => r1 = r2

\* C6: ids are unique and strictly increasing in insertion order, and a read
\* of all records returns every inserted record in insertion order, so the
\* newest record comes last with the greatest id.
C6_IdsIncreaseAndReadInOrder ==
  /\ UniqueIds(stress_logs)
  /\ UniqueIds(stress_entries)
  /\ StrictlyIncreasingIds(logs_journal)
  /\ StrictlyIncreasingIds(entries_journal)
  /\ load_all_records = logs_journal
  /\ fetch_all_data = entries_journal

\* C6 witness: two appends to stress_logs and two to stress_entries have
\* been made and read back.
C6_Witness ==
  /\ Len(logs_journal) = 2
  /\ Len(load_all_records) = 2
  /\ load_all_records[2].id = 2
  /\ Len(fetch_all_data) = 2

NonDecreasingTimestamps(rows) ==
  \A r1, r2 \in rows : r1.id < r2.id => r1.timestamp <= r2.timestamp

\* C7: in both tables the record with the larger id has a timestamp greater
\* than or equal to the other's.
C7_TimestampsNeverDecrease ==
  /\ NonDecreasingTimestamps(stress_logs)
  /\ NonDecreasingTimestamps(stress_entries)

\* every row of the table before the step is a row of the table after it,
\* with all its fields, and the rows added are read after all of them
KeptAndExtended(before, after) ==
  /\ before \subseteq after
  /\ \A new \in after \ before : \A old \in before : old.id < new.id

\* C8: no step deletes or changes a stored record, and new records come
\* after the old ones in a read: what a read returns before a step is a
\* prefix of what a read returns after it.
C8_AppendOnly ==
  [][/\ KeptAndExtended(stress_logs, stress_logs')
     /\ KeptAndExtended(stress_entries, stress_entries')]_vars

\* C8 witness: the same text has been saved twice, by two runs half an hour
\* or more apart, and both rows are in the table.
C8_Witness ==
  \E r1, r2 \in stress_logs :
    /\ r1.id < r2.id
    /\ r1.text = r2.text
    /\ r1.timestamp < r2.timestamp

\* C9: no stored record has a text that is empty after trimming.
C9_NoBlankTextStored ==
  /\ \A r \in stress_logs : ~IsBlank(r.text)
  /\ \A r \in stress_entries : ~IsBlank(r.message)

StressLevels == {"Low", "Medium", "High"}

Causes == {"Academic", "Social", "Burnout", "Career", "General"}

Sentiments == {"Positive", "Neutral", "Negative"}

\* C10: stress_logs holds only stress levels and causes of the fixed
\* enumerations, stress_entries holds only sentiment labels, and neither
\* table holds a label of the other scheme.
C10_LabelsFromEnumerations ==
  /\ \A r \in stress_logs :
       /\ r.stress_level \in StressLevels
       /\ r.cause \in Causes
       /\ r.stress_level \notin Sentiments
  /\ \A r \in stress_entries :
       /\ r.sentiment \in Sentiments
       /\ r.sentiment \notin StressLevels

\* C10 witness: both tables of the shared file hold rows, stress_logs with
\* two different levels.
C10_Witness ==
  /\ \E r1, r2 \in stress_logs : r1.stress_level = "High" /\ r2.stress_level = "Low"
  /\ \E r \in stress_entries : r.sentiment = "Negative"

----------------------------------------------------------------------------
(* Properties of the dashboard                                             *)

\* the number of High rows among the rows df
HighCount(df) == Cardinality({i \in 1..Len(df) : df[i].stress_level = "High"})

\* C11: whatever rows the dashboard has read, the empty table included, it
\* signals a mentor alert carrying the number of High rows when that number
\* is 3 or more, and signals that there is no alert otherwise.
C11_AlertSignalledForEveryStore ==
  LET n == HighCount(page.dashboard.df_all)
  IN  page.dashboard.alert =
        IF n >= 3 THEN [signal |-> "MentorAlert", count |-> n]
        ELSE [signal |-> "NoAlert", count |-> 0]

\* the sum of the counts of a distribution
RECURSIVE SumCounts(_)
SumCounts(counts) ==
  IF DOMAIN counts = {} THEN 0
  ELSE LET l == CHOOSE k \in DOMAIN counts : TRUE
       IN  counts[l] + SumCounts([k \in DOMAIN counts \ {l} |-> counts[k]])

\* counts maps exactly the labels that occur in the column of df to the
\* number of rows carrying them, and the counts add up to the number of rows
IsDistribution(counts, df, column) ==
  /\ DOMAIN counts = {df[i][column] : i \in 1..Len(df)}
  /\ \A l \in DOMAIN counts :
       /\ counts[l] >= 1
       /\ counts[l] = Cardinality({i \in 1..Len(df) : df[i][column] = l})
  /\ SumCounts(counts) = Len(df)

\* C12: the distribution of stress levels and the distribution of causes map
\* exactly the labels occurring among the rows read to their numbers of rows;
\* a label that does not occur is absent, not mapped to zero, and the counts
\* add up to the number of rows.
C12_DistributionOfOccurringLabels ==
  /\ IsDistribution(page.dashboard.level_counts, page.dashboard.df_all, "stress_level")
  /\ IsDistribution(page.dashboard.cause_counts, page.dashboard.df_all, "cause")

\* C12 happens: three rows, two of them High and one Medium and none Low, in
\* two causes
C12_Witness ==
  /\ Len(page.dashboard.df_all) = 3
  /\ DOMAIN page.dashboard.level_counts = {"High", "Medium"}
  /\ page.dashboard.level_counts["High"] = 2
  /\ DOMAIN page.dashboard.cause_counts = {"Burnout", "Social"}

----------------------------------------------------------------------------
(* Properties of failing appends                                           *)

\* C13: after a run in which save_to_db raised, at the insert or at the
\* commit, no read shows the record that failed: every row the run's
\* dashboard read is a row of the table.
C13_FailedAppendNeverRead ==
  page.fault # "none" =>
    \A i \in 1..Len(page.dashboard.df_all) : page.dashboard.df_all[i] \in stress_logs

\* the texts of the last n rows of a journal
LastTexts(journal, n, column) ==
  [j \in 1..n |-> journal[Len(journal) - n + j][column]]

\* after a run whose k-th append failed, the k-1 records before it are the
\* last rows inserted, and they are in the table
PrefixCommitted(p, journal, rows, column) ==
  p.failed_at > 0 =>
    LET n == p.failed_at - 1
    IN  /\ Len(journal) >= n
        /\ LastTexts(journal, n, column) = SubSeq(p.batch, 1, n)
        /\ \A j \in 1..n : journal[Len(journal) - n + j] \in rows

\* every row ever committed is in the table
AllKept(journal, rows) == \A i \in 1..Len(journal) : journal[i] \in rows

\* C14: in a batch every record is committed on its own: when the append of
\* the k-th record fails, the k-1 records before it are in the table, and
\* rows that were committed stay in the table.
C14_BatchPrefixCommitted ==
  /\ PrefixCommitted(page, logs_journal, stress_logs, "text")
  /\ PrefixCommitted(entries_page, entries_journal, stress_entries, "message")
  /\ AllKept(logs_journal, stress_logs)
  /\ AllKept(entries_journal, stress_entries)

\* C14 happens: a batch into stress_logs failed at its second record with a
\* row stored before it, and a batch into stress_entries failed at its
\* second record
C14_Witness ==
  /\ page.failed_at = 2
  /\ Cardinality(stress_logs) = 2
  /\ entries_page.failed_at = 2
  /\ Cardinality(stress_entries) = 1

\* the rows of df stamped on day d
RowsOfDay(df, d) == {i \in 1..Len(df) : DayOf(df[i].timestamp) = d}

\* the entry of the trend for a day and a level; a level without a column
\* has no rows on any day
TrendEntry(trend, d, l) == IF l \in DOMAIN trend[d] THEN trend[d][l] ELSE 0

\* C15: the daily trend has a row for exactly the calendar days on which at
\* least one row was stamped, without rows for the days in between; the entry
\* of a day and a level is the number of rows of that level stamped that day,
\* and the entries of a day add up to the number of rows stamped that day.
C15_TrendOfObservedDays ==
  LET df    == page.dashboard.df_all
      trend == page.dashboard.trend
  IN  /\ DOMAIN trend = {DayOf(df[i].timestamp) : i \in 1..Len(df)}
      /\ \A d \in DOMAIN trend :
           /\ RowsOfDay(df, d) # {}
           /\ \A l \in StressLevels :
                TrendEntry(trend, d, l) =
                  Cardinality({i \in RowsOfDay(df, d) : df[i].stress_level = l})
           /\ SumCounts(trend[d]) = Cardinality(RowsOfDay(df, d))

\* C15 happens: rows on the first day and on the third and none on the
\* second; the first day has two High rows, the third one Medium row and a
\* zero for High
C15_Witness ==
  LET trend == page.dashboard.trend
  IN  /\ DOMAIN trend = {0, 2}
      /\ DOMAIN trend[0] = {"High", "Medium"}
      /\ trend[0]["High"] = 2
      /\ trend[2]["High"] = 0
      /\ trend[2]["Medium"] = 1

----------------------------------------------------------------------------
(* Properties of the script runs                                           *)

\* C16: the dashboard a run of a stress_logs script draws is computed from
\* all rows of the table as the run leaves it, the rows the run itself
\* appended included, and it signals a mentor alert exactly when the table
\* holds 3 or more High rows, with their number.
C16_DashboardIncludesOwnAppends ==
  LET df_all == page.dashboard.df_all
      n      == HighCount(load_all_records)
  IN  /\ \A r \in stress_logs : \E i \in 1..Len(df_all) : df_all[i] = r
      /\ (page.dashboard.alert.signal = "MentorAlert") <=> (n >= 3)
      /\ page.dashboard.alert.signal = "MentorAlert" => page.dashboard.alert.count = n

\* C17: a run in which save_to_db raised tells the user that storing failed,
\* and nothing else, on every input path of both tables.
C17_StorageFailureSurfaced ==
  /\ page.fault # "none" => page.notice = "storage_error"
  /\ entries_page.fault # "none" => entries_page.notice = "storage_error"

\* C18: the rows of an uploaded file are appended by one run, the run the
\* upload starts; later runs with the file still in the uploader append
\* nothing.
C18_UploadAppendedOnce ==
  uploaded # NoUpload => uploaded.runs = 1

====
